---- MODULE Spec2Model ----
(***************************************************************************)
(* SLPN: the graph IR of an affine loop nest (src/graph.rs) and the        *)
(* reuse-interval simulation context that indexes its Access nodes and     *)
(* collects one histogram per Access node (src/simulator/mod.rs).          *)
(*                                                                         *)
(* A node's identity is its arena address; the arena only grows, so the    *)
(* k-th allocation is modelled as address k (1-based) and the null pointer *)
(* as 0.  Option<&Graph> is Null for None and the address for Some.        *)
(***************************************************************************)
EXTENDS Integers, Sequences, FiniteSets, TLC

VARIABLES
    nodes,        \* the arena: nodes[k] is the Graph value stored at address k
    node_info,    \* SimulationCtx.node_info: Seq of histograms (interval -> count)
    address_map,  \* SimulationCtx.address_map: node address -> index into node_info
    logic_time,   \* SimulationCtx.logic_time
    access_time,  \* SimulationCtx.access_time: block id -> time of its last access
    stack,        \* pending populate_node_info_impl calls, innermost first
    visited,      \* the FxHashSet threaded through populate_node_info_impl
    status,       \* "running"; "panicked" once a call has panicked; "crashed"
                  \* or "corrupted" once undefined behaviour has struck
    pass,         \* history: the populate_node_info pass running or last run
    trace,        \* history: the access events so far, in call order
    last,         \* history: the most recent call and its arguments
    fmt,          \* the Graph::format call in progress: its pending calls and
                  \* writes, its visited set and the text written so far
    fmt_hist      \* history: the rendering running or last run

vars == <<nodes, node_info, address_map, logic_time, access_time,
          stack, visited, status, pass, trace, last, fmt, fmt_hist>>

ctxVars == <<node_info, address_map, logic_time, access_time>>
passVars == <<stack, visited, pass>>
fmtVars == <<fmt, fmt_hist>>

----------------------------------------------------------------------------
(* Bounds of the model.                                                     *)

MaxNodes == 2          \* SpecGraph: arena size
MaxGraph == 2          \* SpecIndex: size of the arbitrary graphs indexed
MaxArms == 3           \* SpecIndex: Access nodes under the Branch of a deep graph
MaxSessionNodes == 2   \* SpecSession: arena size
MaxPasses == 2         \* SpecSession: populate_node_info calls
MaxSessionTime == 2    \* SpecSession: access events
MaxAccessNodes == 2    \* SpecSim: indexed Access nodes
MaxBlock == 1          \* SpecSim: block ids are drawn from 0..MaxBlock
MaxTime == 5           \* SpecSim: access events
MaxTraceLen == 8       \* SpecTrace: access events

Null == 0
Ids == {0, 1}        \* the memref / ivar ids the build specification passes
Exprs == {"e0"}      \* opaque affine expressions (crate::affine::Expr)
Blocks == 0..MaxBlock

----------------------------------------------------------------------------
(* src/graph.rs: the Graph enum.                                            *)

Start(next) == [tag |-> "Start", next |-> next]
End == [tag |-> "End"]
Access(memref, offset, next) ==
    [tag |-> "Access", memref |-> memref, offset |-> offset, next |-> next]
Update(ivar, expr, next) ==
    [tag |-> "Update", ivar |-> ivar, expr |-> expr, next |-> next]
\* A variant of Branch with the two successors exchanged.
Branch_else_then(ivar, bound, then, else) ==
    [tag |-> "Branch", ivar |-> ivar, bound |-> bound, then |-> else, else |-> then]

Branch(ivar, bound, then, else) ==
    [tag |-> "Branch", ivar |-> ivar, bound |-> bound, then |-> then, else |-> else]

Addrs == 1..Len(nodes)
Ptrs == {Null} \cup Addrs      \* the pointers a caller can hold: null or a node

EmptyMap == [k \in {} |-> 0]
Put(f, k, v) == [x \in DOMAIN f \cup {k} |-> IF x = k THEN v ELSE f[x]]

\* The session is alive and neither a populate_node_info call nor a
\* rendering is on the call stack.
Idle == status = "running" /\ stack = << >> /\ fmt.stack = << >>

\* No rendering has been started.  The history of a rendering: its root, the
\* nodes expanded in order, the nodes whose expansion is still open (the
\* rendering path), and the steps taken.
NoFmt == [stack |-> << >>, visited |-> {}, out |-> << >>]
NoRender == [root |-> Null, expanded |-> << >>, path |-> << >>, steps |-> 0]

\* The history of a pass: its root, the context it started from, the nodes it
\* has processed in order, the invocations of populate_node_info_impl so far,
\* how many passes have been started, the roots of the earlier ones, and the
\* index every node was given when it was first indexed.
NoPass == [root |-> Null, map0 |-> EmptyMap, info0 |-> << >>, order |-> << >>,
           calls |-> 0, count |-> 0, done |-> {}, first |-> EmptyMap]

FreshCtx ==
    /\ node_info = << >>
    /\ address_map = EmptyMap
    /\ logic_time = 0
    /\ access_time = EmptyMap

----------------------------------------------------------------------------
(* Construction: slap_graph_new_*.  Each allocates one arena slot.          *)

\* ctx.arena.alloc(UnsafeCell::new(g)): the node goes to the next free address, which is
\* the pointer returned.  `call` is the call's name and arguments.
alloc(g, call) ==
    /\ Idle
    /\ nodes' = Append(nodes, g)
    /\ last' = ("ret" :> (Len(nodes) + 1)) @@ call
    /\ UNCHANGED <<ctxVars, passVars, status, trace, fmtVars>>

slap_graph_new_start(next) ==
    alloc(Start(next), [op |-> "new_start", next |-> next])

slap_graph_new_end == alloc(End, [op |-> "new_end"])

slap_graph_new_access(memref, offset, next) ==
    alloc(Access(memref, offset, next),
          [op |-> "new_access", memref |-> memref, offset |-> offset,
           next |-> next])

slap_graph_new_update(ivar, expr, next) ==
    alloc(Update(ivar, expr, next),
          [op |-> "new_update", ivar |-> ivar, expr |-> expr, next |-> next])

slap_graph_new_branch(ivar, bound, then, else) ==
    alloc(Branch(ivar, bound, then, else),
          [op |-> "new_branch", ivar |-> ivar, bound |-> bound,
           then |-> then, else |-> else])

----------------------------------------------------------------------------
(* Patching: slap_graph_*_set_*.  `if let Some(..) = NonNull::new(target)`  *)
(* then `if let Graph::<Variant> {field, ..} = target` then `*field = ..`.  *)

\* A variant of set_field that tests for the link instead of the variant.
set_field_any_variant(target, tag, field, value) ==
    IF target # Null /\ field \in DOMAIN nodes[target]
    THEN [nodes EXCEPT ![target] = [@ EXCEPT ![field] = value]]
    ELSE nodes

\* A variant of set_field that rebuilds the node: the named link is written
\* and the node's other link is lost.
set_field_rebuild(target, tag, field, value) ==
    IF target # Null /\ nodes[target].tag = tag
    THEN [nodes EXCEPT ![target] =
             [f \in DOMAIN @ |-> IF f = field THEN value
                                 ELSE IF f \in {"next", "then", "else"} THEN Null
                                 ELSE @[f]]]
    ELSE nodes

set_field(target, tag, field, value) ==
    IF target # Null /\ nodes[target].tag = tag
    THEN [nodes EXCEPT ![target] = [@ EXCEPT ![field] = value]]
    ELSE nodes

patch(target, tag, field, value, op) ==
    /\ Idle
    /\ nodes' = set_field(target, tag, field, value)
    /\ last' = [op |-> op, target |-> target, value |-> value]
    /\ UNCHANGED <<ctxVars, passVars, status, trace, fmtVars>>

slap_graph_start_set_next(start, next) ==
    patch(start, "Start", "next", next, "start_set_next")

slap_graph_access_set_next(access, next) ==
    patch(access, "Access", "next", next, "access_set_next")

slap_graph_update_set_next(update, next) ==
    patch(update, "Update", "next", next, "update_set_next")

slap_graph_branch_set_then(branch, then) ==
    patch(branch, "Branch", "then", then, "branch_set_then")

slap_graph_branch_set_else(branch, else) ==
    patch(branch, "Branch", "else", else, "branch_set_else")

----------------------------------------------------------------------------
(* src/graph.rs: Graph::format and Debug::fmt.  The recursion is run one    *)
(* step at a time: fmt.stack holds what the running calls have still to do, *)
(* a call of format on a successor or a write, innermost first.  The text   *)
(* written is kept as the sequence of its pieces, the Debug text of an      *)
(* affine expression being one piece.  The writer is taken not to fail.     *)

Call(g) == [kind |-> "call", node |-> g, text |-> ""]
Write(g, text) == [kind |-> "write", node |-> g, text |-> text]
Return(g, text) == [kind |-> "return", node |-> g, text |-> text]

\* The first write of the match arm of node g, as a sequence of pieces.
format_head(g) ==
    LET n == nodes[g] IN
    CASE n.tag = "Start" -> <<"Start(">>
      [] n.tag = "End" -> <<"End">>
      [] n.tag = "Access" -> <<"Access(", ToString(n.memref), ", ", n.offset, ", ">>
      [] n.tag = "Update" -> <<"Update(", ToString(n.ivar), ", ", n.expr, ", ">>
      [] n.tag = "Branch" -> <<"Branch(", ToString(n.ivar), ", ", n.bound, ", ">>

\* What the match arm of node g does after its first write, in order.
format_rest(g) ==
    LET n == nodes[g] IN
    CASE n.tag \in {"Start", "Access", "Update"} ->
             (IF n.next # Null THEN <<Call(n.next)>> ELSE << >>)
             \o <<Return(g, ")")>>
      [] n.tag = "End" -> << >>
      [] n.tag = "Branch" ->
             (IF n.then # Null THEN <<Call(n.then), Write(g, ", ")>> ELSE << >>)
             \o (IF n.else # Null THEN <<Call(n.else)>> ELSE << >>)
             \o <<Return(g, ")")>>

\* A variant of visited_contains that never finds the token.
visited_contains_never(set, token) == FALSE

\* visited.contains(&token)
visited_contains(set, token) == token \in set

\* <Graph as Debug>::fmt: self.format(f, &mut HashSet::new())
Debug_fmt(g) ==
    /\ Idle
    /\ fmt' = [stack |-> <<Call(g)>>, visited |-> {}, out |-> << >>]
    /\ fmt_hist' = [root |-> g, expanded |-> << >>, path |-> << >>, steps |-> 0]
    /\ last' = [op |-> "fmt", g |-> g]
    /\ UNCHANGED <<nodes, ctxVars, passVars, status, trace>>

\* One step of the rendering: the next pending write, or the next pending
\* call of format up to and including the first write of its match arm.
format ==
    /\ status = "running"
    /\ fmt.stack # << >>
    /\ LET f == Head(fmt.stack)
           g == f.node
       IN  IF f.kind # "call"
           THEN /\ fmt' = [fmt EXCEPT !.stack = Tail(@),
                                       !.out = Append(@, f.text)]
                /\ fmt_hist' = [fmt_hist EXCEPT
                       !.steps = @ + 1,
                       !.path = IF f.kind = "return"
                                THEN SubSeq(@, 1, Len(@) - 1) ELSE @]
           ELSE IF visited_contains(fmt.visited, g)
           THEN /\ fmt' = [fmt EXCEPT !.stack = Tail(@),
                                       !.out = Append(@, "...")]
                /\ fmt_hist' = [fmt_hist EXCEPT !.steps = @ + 1]
           ELSE /\ fmt' = [stack |-> format_rest(g) \o Tail(fmt.stack),
                           visited |-> fmt.visited \cup {g},
                           out |-> fmt.out \o format_head(g)]
                /\ fmt_hist' = [fmt_hist EXCEPT
                       !.steps = @ + 1,
                       !.expanded = Append(@, g),
                       !.path = IF format_rest(g) = << >> THEN @
                                ELSE Append(@, g)]
    /\ last' = [op |-> "format", g |-> Head(fmt.stack).node]
    /\ UNCHANGED <<nodes, ctxVars, passVars, status, trace>>

----------------------------------------------------------------------------
(* src/simulator/mod.rs: SimulationCtx::access.                             *)

\* A variant of and_modify_or_insert without the and_modify: the count of an
\* interval seen before is set back to 1.
insert_one(hist, interval) == Put(hist, interval, 1)

\* BTreeMap entry(interval).and_modify(|e| *e += 1).or_insert(1)
and_modify_or_insert(hist, interval) ==
    IF interval \in DOMAIN hist
    THEN [hist EXCEPT ![interval] = @ + 1]
    ELSE Put(hist, interval, 1)

\* Variants of sim_access with one plausible slip each.
\* The clock is advanced inside the reuse branch only.
sim_access_tick_on_reuse(time0, info, times, node_id, block_id) ==
    LET time == time0
        inserted == IF block_id \in DOMAIN times THEN times
                    ELSE Put(times, block_id, time)
        last_access == inserted[block_id]
    IN  IF last_access # time
        THEN [logic_time |-> time + 1,
              node_info |-> [info EXCEPT ![node_id + 1] =
                                and_modify_or_insert(@, time - last_access)],
              access_time |-> [inserted EXCEPT ![block_id] = time]]
        ELSE [logic_time |-> time,
              node_info |-> info,
              access_time |-> inserted]

\* `*last_access = time` is left out of the reuse branch.
sim_access_stale_last_access(time0, info, times, node_id, block_id) ==
    LET time == time0
        inserted == IF block_id \in DOMAIN times THEN times
                    ELSE Put(times, block_id, time)
        last_access == inserted[block_id]
    IN  IF last_access # time
        THEN [logic_time |-> time + 1,
              node_info |-> [info EXCEPT ![node_id + 1] =
                                and_modify_or_insert(@, time - last_access)],
              access_time |-> inserted]
        ELSE [logic_time |-> time + 1,
              node_info |-> info,
              access_time |-> inserted]

\* The `!=` test is left out: a first touch records an interval of 0.
sim_access_counts_first_touch(time0, info, times, node_id, block_id) ==
    LET time == time0
        inserted == IF block_id \in DOMAIN times THEN times
                    ELSE Put(times, block_id, time)
        last_access == inserted[block_id]
    IN  [logic_time |-> time + 1,
         node_info |-> [info EXCEPT ![node_id + 1] =
                           and_modify_or_insert(@, time - last_access)],
         access_time |-> [inserted EXCEPT ![block_id] = time]]

\* The interval is taken from the clock after it was advanced.
sim_access_interval_off_by_one(time0, info, times, node_id, block_id) ==
    LET time == time0
        inserted == IF block_id \in DOMAIN times THEN times
                    ELSE Put(times, block_id, time)
        last_access == inserted[block_id]
    IN  IF last_access # time
        THEN [logic_time |-> time + 1,
              node_info |-> [info EXCEPT ![node_id + 1] =
                                and_modify_or_insert(@, time + 1 - last_access)],
              access_time |-> [inserted EXCEPT ![block_id] = time]]
        ELSE [logic_time |-> time + 1,
              node_info |-> info,
              access_time |-> inserted]

\* The context fields after access(node_id, block_id) on the fields given.
\* `or_insert(time)` makes a first touch read back `time` itself, so the
\* test `*last_access != time` is what tells a reuse from a first touch.
sim_access(time0, info, times, node_id, block_id) ==
    LET time == time0
        inserted == IF block_id \in DOMAIN times THEN times
                    ELSE Put(times, block_id, time)
        last_access == inserted[block_id]
    IN  IF last_access # time
        THEN [logic_time |-> time + 1,
              node_info |-> [info EXCEPT ![node_id + 1] =
                                and_modify_or_insert(@, time - last_access)],
              access_time |-> [inserted EXCEPT ![block_id] = time]]
        ELSE [logic_time |-> time + 1,
              node_info |-> info,
              access_time |-> inserted]

\* The outcomes of access with node_id >= node_info.len().  The clock has
\* been advanced; `get_unchecked_mut(node_id)` is then undefined behaviour.
\* A build with the unsafe-precondition checks on aborts there.  A build
\* without them forms the out-of-bounds reference and goes on: on a first
\* touch the reference is never used and the call returns normally, on a
\* reuse the BTreeMap entry call runs on memory past the vector's end and
\* the process either faults or returns with memory overwritten.
access_out_of_bounds(time, times, block_id) ==
    LET inserted == IF block_id \in DOMAIN times THEN times
                    ELSE Put(times, block_id, time)
        first_touch == inserted[block_id] = time
    IN     {[status |-> "crashed", access_time |-> times]}
      \cup (IF first_touch
            THEN {[status |-> "running", access_time |-> inserted]}
            ELSE {[status |-> "crashed", access_time |-> inserted],
                  [status |-> "corrupted",
                   access_time |-> [inserted EXCEPT ![block_id] = time]]})

\* slap_sim_access -> SimulationCtx::access.  node_id indexes node_info with
\* get_unchecked_mut, so only in-bounds ids are defined behaviour.
access(node_id, block_id) ==
    /\ Idle
    /\ IF node_id < Len(node_info)
       THEN LET r == sim_access(logic_time, node_info, access_time,
                                node_id, block_id)
            IN  /\ logic_time' = r.logic_time
                /\ node_info' = r.node_info
                /\ access_time' = r.access_time
                /\ UNCHANGED status
       ELSE \E o \in access_out_of_bounds(logic_time, access_time, block_id) :
                /\ logic_time' = logic_time + 1
                /\ status' = o.status
                /\ access_time' = o.access_time
                /\ UNCHANGED node_info
    /\ trace' = Append(trace, <<node_id, block_id>>)
    /\ last' = [op |-> "access", node_id |-> node_id, block_id |-> block_id]
    /\ UNCHANGED <<nodes, address_map, passVars, fmtVars>>

----------------------------------------------------------------------------
(* src/simulator/mod.rs: populate_node_info and populate_node_info_impl.    *)
(* The recursion is run one invocation per step: `stack` holds the calls    *)
(* still to be made, the callee of the running frame first.                 *)

\* Variants of recursive_calls: the else side first; a lone side followed.
recursive_calls_else_first(g) ==
    LET n == nodes[g] IN
    CASE n.tag = "Start" /\ n.next # Null -> <<n.next>>
      [] n.tag = "Access" /\ n.next # Null -> <<n.next>>
      [] n.tag = "Update" /\ n.next # Null -> <<n.next>>
      [] n.tag = "Branch" /\ n.then # Null /\ n.else # Null -> <<n.else, n.then>>
      [] OTHER -> << >>

\* The Update arm is missing: the pass stops at an Update node.
recursive_calls_skip_update(g) ==
    LET n == nodes[g] IN
    CASE n.tag = "Start" /\ n.next # Null -> <<n.next>>
      [] n.tag = "Access" /\ n.next # Null -> <<n.next>>
      [] n.tag = "Branch" /\ n.then # Null /\ n.else # Null -> <<n.then, n.else>>
      [] OTHER -> << >>

recursive_calls_lone_side(g) ==
    LET n == nodes[g] IN
    CASE n.tag = "Start" /\ n.next # Null -> <<n.next>>
      [] n.tag = "Access" /\ n.next # Null -> <<n.next>>
      [] n.tag = "Update" /\ n.next # Null -> <<n.next>>
      [] n.tag = "Branch" /\ n.then # Null /\ n.else # Null -> <<n.then, n.else>>
      [] n.tag = "Branch" /\ n.then # Null -> <<n.then>>
      [] n.tag = "Branch" /\ n.else # Null -> <<n.else>>
      [] OTHER -> << >>

\* The recursive calls the match makes for node g, in call order.
recursive_calls(g) ==
    LET n == nodes[g] IN
    CASE n.tag = "Start" /\ n.next # Null -> <<n.next>>
      [] n.tag = "Access" /\ n.next # Null -> <<n.next>>
      [] n.tag = "Update" /\ n.next # Null -> <<n.next>>
      [] n.tag = "Branch" /\ n.then # Null /\ n.else # Null -> <<n.then, n.else>>
      [] OTHER -> << >>

\* Variants of entry_or_insert_with: an indexed node is given a new index and
\* histogram again; an indexed node has its histogram cleared.
entry_insert_always(map, info, g) ==
    [address_map |-> Put(map, g, Len(info)),
     node_info |-> Append(info, EmptyMap)]

entry_or_reset(map, info, g) ==
    IF g \in DOMAIN map
    THEN [address_map |-> map,
          node_info |-> [info EXCEPT ![map[g] + 1] = EmptyMap]]
    ELSE [address_map |-> Put(map, g, Len(info)),
          node_info |-> Append(info, EmptyMap)]

\* address_map.entry(g).or_insert_with(|| { len; push(Default); len })
entry_or_insert_with(map, info, g) ==
    IF g \in DOMAIN map
    THEN [address_map |-> map, node_info |-> info]
    ELSE [address_map |-> Put(map, g, Len(info)),
          node_info |-> Append(info, EmptyMap)]

\* A variant of visited_insert that never reports a node as seen.
visited_insert_always(set, g) == TRUE

\* visited.insert(g): TRUE when g was not in the set
visited_insert(set, g) == g \notin set

populate_node_info(g) ==
    /\ Idle
    /\ stack' = <<g>>
    /\ visited' = {}
    /\ pass' = [root |-> g, map0 |-> address_map, info0 |-> node_info,
                order |-> << >>, calls |-> 0, count |-> pass.count + 1,
                done |-> IF pass.root = Null THEN {} ELSE pass.done \cup {pass.root},
                first |-> pass.first]
    /\ last' = [op |-> "populate_node_info", g |-> g]
    /\ UNCHANGED <<nodes, ctxVars, status, trace, fmtVars>>

populate_node_info_impl ==
    /\ status = "running"
    /\ stack # << >>
    /\ LET g == Head(stack) IN
       /\ IF visited_insert(visited, g)
          THEN /\ visited' = visited \cup {g}
               /\ stack' = recursive_calls(g) \o Tail(stack)
               /\ IF nodes[g].tag = "Access"
                  THEN LET r == entry_or_insert_with(address_map, node_info, g)
                       IN  /\ address_map' = r.address_map
                           /\ node_info' = r.node_info
                           /\ pass' = [pass EXCEPT
                                  !.calls = @ + 1,
                                  !.order = Append(@, g),
                                  !.first = IF g \in DOMAIN @ THEN @
                                            ELSE Put(@, g, r.address_map[g])]
                  ELSE /\ UNCHANGED <<address_map, node_info>>
                       /\ pass' = [pass EXCEPT !.calls = @ + 1,
                                                !.order = Append(@, g)]
          ELSE /\ stack' = Tail(stack)
               /\ pass' = [pass EXCEPT !.calls = @ + 1]
               /\ UNCHANGED <<visited, address_map, node_info>>
       /\ last' = [op |-> "populate_node_info_impl", g |-> g]
    /\ UNCHANGED <<nodes, logic_time, access_time, status, trace, fmtVars>>

\* A variant of slap_sim_get_node_id that answers a missing key with index 0.
slap_sim_get_node_id_or_zero(graph) ==
    /\ Idle
    /\ last' = [op |-> "get_node_id", g |-> graph,
                ret |-> IF graph \in DOMAIN address_map
                        THEN address_map[graph] ELSE 0]
    /\ UNCHANGED <<nodes, ctxVars, passVars, status, trace, fmtVars>>

\* slap_sim_get_node_id: `ctx.address_map[&graph]`, which panics on a missing key.
slap_sim_get_node_id(graph) ==
    /\ Idle
    /\ IF graph \in DOMAIN address_map
       THEN /\ last' = [op |-> "get_node_id", g |-> graph, ret |-> address_map[graph]]
            /\ UNCHANGED status
       ELSE /\ last' = [op |-> "get_node_id", g |-> graph]
            /\ status' = "panicked"
    /\ UNCHANGED <<nodes, ctxVars, passVars, trace, fmtVars>>

\* Option<T>
None == [some |-> FALSE]
Some(x) == [some |-> TRUE, value |-> x]

\* A variant of address_map_get that answers an unknown node with an empty
\* histogram.
address_map_get_or_default(map, info, g) ==
    IF g \in DOMAIN map THEN Some(info[map[g] + 1]) ELSE Some(EmptyMap)

\* self.address_map.get(&g).map(|x| &self.node_info[*x])
address_map_get(map, info, g) ==
    IF g \in DOMAIN map THEN Some(info[map[g] + 1]) ELSE None

\* SimulationCtx::get_node_dist(&self, g): a query on a shared reference.
get_node_dist(g) ==
    /\ Idle
    /\ last' = [op |-> "get_node_dist", g |-> g,
                ret |-> address_map_get(address_map, node_info, g)]
    /\ UNCHANGED <<nodes, ctxVars, passVars, status, trace, fmtVars>>

----------------------------------------------------------------------------
(* The build specification: an empty arena, then any construction and patch *)
(* calls on pointers the caller holds.                                      *)

InitGraph ==
    /\ nodes = << >>
    /\ FreshCtx
    /\ stack = << >>
    /\ visited = {}
    /\ status = "running"
    /\ pass = NoPass
    /\ trace = << >>
    /\ last = [op |-> "init"]
    /\ fmt = NoFmt
    /\ fmt_hist = NoRender

NewNode(limit, ids) ==
    /\ Len(nodes) < limit
    /\ \/ \E n \in Ptrs : slap_graph_new_start(n)
       \/ slap_graph_new_end
       \/ \E m \in ids, o \in Exprs, n \in Ptrs : slap_graph_new_access(m, o, n)
       \/ \E i \in ids, e \in Exprs, n \in Ptrs : slap_graph_new_update(i, e, n)
       \/ \E i \in ids, b \in Exprs, t \in Ptrs, e \in Ptrs :
              slap_graph_new_branch(i, b, t, e)

PatchNode ==
    \/ \E t \in Ptrs, n \in Ptrs : slap_graph_start_set_next(t, n)
    \/ \E t \in Ptrs, n \in Ptrs : slap_graph_access_set_next(t, n)
    \/ \E t \in Ptrs, n \in Ptrs : slap_graph_update_set_next(t, n)
    \/ \E t \in Ptrs, n \in Ptrs : slap_graph_branch_set_then(t, n)
    \/ \E t \in Ptrs, n \in Ptrs : slap_graph_branch_set_else(t, n)

NextGraph == NewNode(MaxNodes, Ids) \/ PatchNode

SpecGraph == InitGraph /\ [][NextGraph]_vars

----------------------------------------------------------------------------
(* The indexing specification: a graph the build phase left behind and a    *)
(* fresh context, then the one indexing pass of the session, from any node  *)
(* as root.  The build phase can leave any graph (construct the nodes, then *)
(* patch the links), so the graphs are all those of up to MaxGraph nodes,   *)
(* and the deep ones: a Branch over MaxArms Access nodes, links arbitrary.  *)

\* Every node value whose links are null or point into 1..n.
NodeValues(n) ==
    LET P == 0..n IN
         {Start(x) : x \in P} \cup {End}
    \cup {Access(0, o, x) : o \in Exprs, x \in P}
    \cup {Update(0, e, x) : e \in Exprs, x \in P}
    \cup {Branch(0, b, x[1], x[2]) : b \in Exprs, x \in P \X P}

SmallGraphs == UNION {[1..n -> NodeValues(n)] : n \in 1..MaxGraph}

DeepGraphs ==
    LET n == MaxArms + 1
        P == 0..n
    IN  {[k \in 1..n |-> IF k = 1 THEN Branch(0, "e0", l[1], l[2])
                                  ELSE Access(0, "e0", l[k + 1])] :
            l \in [1..(n + 1) -> P]}

InitCtx ==
    /\ FreshCtx
    /\ stack = << >>
    /\ visited = {}
    /\ status = "running"
    /\ pass = NoPass
    /\ trace = << >>
    /\ last = [op |-> "init"]
    /\ fmt = NoFmt
    /\ fmt_hist = NoRender

InitIndex ==
    /\ nodes \in SmallGraphs \cup DeepGraphs
    /\ InitCtx

NextIndex ==
    \/ \E g \in Addrs : pass.count = 0 /\ populate_node_info(g)
    \/ populate_node_info_impl

SpecIndex == InitIndex /\ [][NextIndex]_vars

\* A call that has been made runs on: the recursion is never left suspended.
FairSpecIndex == SpecIndex /\ WF_vars(populate_node_info_impl)

----------------------------------------------------------------------------
(* The rendering specification: a graph the build phase left behind, then   *)
(* one rendering of it from any node.                                       *)

InitFormat == InitIndex

NextFormat ==
    \/ \E g \in Addrs : fmt_hist.root = Null /\ Debug_fmt(g)
    \/ format

SpecFormat == InitFormat /\ [][NextFormat]_vars

----------------------------------------------------------------------------
(* The session specification: an empty arena and a fresh context, then      *)
(* constructions, indexing passes, access events and identity lookups in    *)
(* any order; the node id of an access event may be one past the last       *)
(* index, and a lookup may name a node that has no index.                   *)

InitSession ==
    /\ nodes = << >>
    /\ InitCtx

NextSession ==
    \/ NewNode(MaxSessionNodes, {0})
    \/ \E g \in Addrs : pass.count < MaxPasses /\ populate_node_info(g)
    \/ populate_node_info_impl
    \/ \E n \in 0..Len(node_info) :
           logic_time < MaxSessionTime /\ access(n, 0)
    \/ \E g \in Addrs : slap_sim_get_node_id(g)
    \/ \E g \in Addrs : get_node_dist(g)

SpecSession == InitSession /\ [][NextSession]_vars

----------------------------------------------------------------------------
(* The simulation specifications: the context as the indexing pass leaves   *)
(* it for a chain of n Access nodes, then access events with indexed ids.   *)

InitSimOf(n) ==
    /\ nodes = [k \in 1..n |-> Access(0, "e0", k - 1)]
    /\ address_map = [k \in 1..n |-> n - k]
    /\ node_info = [k \in 1..n |-> EmptyMap]
    /\ logic_time = 0
    /\ access_time = EmptyMap
    /\ stack = << >>
    /\ visited = 1..n
    /\ status = "running"
    /\ pass = [root |-> n, map0 |-> EmptyMap, info0 |-> << >>,
               order |-> [k \in 1..n |-> n + 1 - k], calls |-> n,
               count |-> 1, done |-> {}, first |-> [k \in 1..n |-> n - k]]
    /\ trace = << >>
    /\ last = [op |-> "populate_node_info_impl", g |-> 1]
    /\ fmt = NoFmt
    /\ fmt_hist = NoRender

InitSim == \E n \in 1..MaxAccessNodes : InitSimOf(n)

NextSim ==
    \E n \in 0..(Len(node_info) - 1), b \in Blocks :
        logic_time < MaxTime /\ access(n, b)

SpecSim == InitSim /\ [][NextSim]_vars

\* Long traces over two nodes X = 0, Y = 1 and two blocks B = 0, B' = 1.
InitTrace == InitSimOf(2)

NextTrace ==
    \E n \in {0, 1}, b \in {0, 1} :
        logic_time < MaxTraceLen /\ access(n, b)

SpecTrace == InitTrace /\ [][NextTrace]_vars

----------------------------------------------------------------------------
(* The scenario specification: a front end builds the loop                  *)
(* Start -> Access -> Update -> Branch, with Branch.then back to the Access *)
(* and Branch.else to End.  The five nodes are constructed in any order, a  *)
(* link given at construction when its successor exists already and patched *)
(* in later otherwise; the graph is then indexed from Start, and the driver *)
(* reports accesses of the Access node to one block.                        *)

WithTag(tag) == {k \in Addrs : nodes[k].tag = tag}
LinkTo(tag) == {Null} \cup WithTag(tag)

ScenarioBuild ==
    \/ WithTag("Start") = {} /\ \E n \in LinkTo("Access") : slap_graph_new_start(n)
    \/ WithTag("End") = {} /\ slap_graph_new_end
    \/ WithTag("Access") = {} /\ \E n \in LinkTo("Update") :
           slap_graph_new_access(0, "e0", n)
    \/ WithTag("Update") = {} /\ \E n \in LinkTo("Branch") :
           slap_graph_new_update(0, "e0", n)
    \/ WithTag("Branch") = {} /\ \E t \in LinkTo("Access"), e \in LinkTo("End") :
           slap_graph_new_branch(0, "e0", t, e)

ScenarioPatch ==
    \/ \E x \in WithTag("Start"), n \in WithTag("Access") :
           nodes[x].next = Null /\ slap_graph_start_set_next(x, n)
    \/ \E x \in WithTag("Access"), n \in WithTag("Update") :
           nodes[x].next = Null /\ slap_graph_access_set_next(x, n)
    \/ \E x \in WithTag("Update"), n \in WithTag("Branch") :
           nodes[x].next = Null /\ slap_graph_update_set_next(x, n)
    \/ \E x \in WithTag("Branch"), n \in WithTag("Access") :
           nodes[x].then = Null /\ slap_graph_branch_set_then(x, n)
    \/ \E x \in WithTag("Branch"), n \in WithTag("End") :
           nodes[x].else = Null /\ slap_graph_branch_set_else(x, n)

\* The loop is complete: every node is there and every link is set.
ScenarioBuilt ==
    /\ \A tag \in {"Start", "End", "Access", "Update", "Branch"} :
           WithTag(tag) # {}
    /\ \A k \in Addrs :
           /\ "next" \in DOMAIN nodes[k] => nodes[k].next # Null
           /\ "then" \in DOMAIN nodes[k] => nodes[k].then # Null
           /\ "else" \in DOMAIN nodes[k] => nodes[k].else # Null

InitScenario ==
    /\ nodes = << >>
    /\ InitCtx

NextScenario ==
    \/ ScenarioBuild
    \/ ScenarioPatch
    \/ \E g \in WithTag("Start") :
           ScenarioBuilt /\ pass.count = 0 /\ populate_node_info(g)
    \/ populate_node_info_impl
    \/ \E a \in WithTag("Access") \cap DOMAIN address_map, b \in Blocks :
           /\ logic_time < MaxTime
           /\ trace # << >> => b = trace[1][2]
           /\ access(address_map[a], b)

SpecScenario == InitScenario /\ [][NextScenario]_vars

----------------------------------------------------------------------------
(* Properties of the reuse-interval engine.                                 *)

Range(f) == {f[x] : x \in DOMAIN f}

\* Whether the step is an access call, and the call's arguments and time.
AccessStep == trace' # trace
StepNode == trace'[Len(trace')][1]
StepBlock == trace'[Len(trace')][2]

\* The sum of the counts of one histogram, and of a sequence of histograms.
RECURSIVE SumOver(_, _)
SumOver(f, D) ==
    IF D = {} THEN 0
    ELSE LET x == CHOOSE y \in D : TRUE IN f[x] + SumOver(f, D \ {x})
HistCount(hist) == SumOver(hist, DOMAIN hist)
TotalCount == SumOver([k \in DOMAIN node_info |-> HistCount(node_info[k])],
                      DOMAIN node_info)

\* Event i of the trace (1-based) happens at logical time i - 1.
Touches(b) == {i \in DOMAIN trace : trace[i][2] = b}
TraceBlocks == {trace[i][2] : i \in DOMAIN trace}

\* C1: every access call with an indexed node id advances logic_time by
\* exactly one, first touch or reuse: the clock always equals the number of
\* access calls made on the fresh context, so it never decreases.
C1_ClockCountsCalls == logic_time = Len(trace)

\* A first touch, a reuse and another first touch have been made.
C1_Witness ==
    /\ Len(trace) = 3
    /\ trace[2][2] = trace[1][2]
    /\ trace[3][2] # trace[1][2]
    /\ TotalCount = 1

\* C2: an access at time t to a block last seen at prev adds exactly one to
\* histograms[node_id][t - prev] (creating it as 1), sets last_seen[block] to
\* t, and changes no other histogram entry and no other block's last_seen.
C2_ReuseStepFrame ==
    [][(AccessStep /\ StepBlock \in DOMAIN access_time) =>
         LET t == logic_time
             k == StepNode + 1
             d == t - access_time[StepBlock]
         IN  /\ d > 0
             /\ Len(node_info') = Len(node_info)
             /\ DOMAIN node_info'[k] = DOMAIN node_info[k] \cup {d}
             /\ node_info'[k][d] =
                    IF d \in DOMAIN node_info[k] THEN node_info[k][d] + 1 ELSE 1
             /\ \A i \in DOMAIN node_info[k] \ {d} :
                    node_info'[k][i] = node_info[k][i]
             /\ \A j \in DOMAIN node_info : j # k => node_info'[j] = node_info[j]
             /\ DOMAIN access_time' = DOMAIN access_time
             /\ access_time'[StepBlock] = t
             /\ \A b \in DOMAIN access_time \ {StepBlock} :
                    access_time'[b] = access_time[b]
      ]_vars

\* A node has just reused a block whose prior touch was made by another node
\* that holds a histogram entry of its own.
C2_Witness ==
    LET n == Len(trace) IN
    /\ n >= 3
    /\ trace[n][2] = trace[n - 1][2]
    /\ trace[n][1] # trace[n - 1][1]
    /\ node_info[trace[n - 1][1] + 1] # EmptyMap
    /\ node_info[trace[n][1] + 1] # EmptyMap
    /\ Cardinality(DOMAIN access_time) = 2

\* C3: an access at time t to a block with no last_seen entry records t for
\* the block and changes no histogram; so the histograms hold one count per
\* touch of a block after its first, and a block touched once adds nothing.
C3_FirstTouch ==
    [][AccessStep =>
         /\ StepBlock \notin DOMAIN access_time =>
              /\ node_info' = node_info
              /\ access_time' = Put(access_time, StepBlock, logic_time)
         /\ LET blocks == {trace'[i][2] : i \in DOMAIN trace'}
                touches == [b \in blocks |->
                    Cardinality({i \in DOMAIN trace' : trace'[i][2] = b}) - 1]
                counts == [j \in DOMAIN node_info' |->
                    SumOver(node_info'[j], DOMAIN node_info'[j])]
            IN  SumOver(counts, DOMAIN counts) = SumOver(touches, blocks)
      ]_vars

\* A block has just been touched for the first time while another block has
\* already been reused.
C3_Witness ==
    LET n == Len(trace) IN
    /\ n >= 3
    /\ Cardinality(Touches(trace[n][2])) = 1
    /\ TotalCount >= 1
    /\ last.op = "access"

\* The block of event i was most recently touched before i by event
\* PrevTouch(i); 0 when event i is the block's first touch.
PrevTouch(i) ==
    LET before == {j \in 1..(i - 1) : trace[j][2] = trace[i][2]}
    IN  IF before = {} THEN 0 ELSE CHOOSE j \in before : \A m \in before : m <= j

\* The reuses node x made, and the histogram they amount to.
Reuses(x) == {i \in DOMAIN trace : trace[i][1] = x /\ PrevTouch(i) # 0}
IntervalHist(x) ==
    [d \in {i - PrevTouch(i) : i \in Reuses(x)} |->
        Cardinality({i \in Reuses(x) : i - PrevTouch(i) = d})]

\* Node X = 0 touches block B = 0 at times 0, 3 and 7 and node Y = 1 touches
\* another block at every other time.
ExampleTrace ==
    /\ Len(trace) = 8
    /\ \A i \in 1..8 : trace[i] = IF i \in {1, 4, 8} THEN <<0, 0>> ELSE <<1, 1>>

\* C4: after any sequence of access events on a fresh context,
\* histograms[X][d] is the number of events of node X whose block was last
\* touched d ticks before the event; touches of other blocks in between only
\* advance the clock.  X touching B at times 0, 3, 7 ends with {3:1, 4:1}.
C4_IntervalAccounting ==
    /\ \A x \in 0..(Len(node_info) - 1) : node_info[x + 1] = IntervalHist(x)
    /\ ExampleTrace => node_info[1] = (3 :> 1 @@ 4 :> 1)

C4_Witness == ExampleTrace /\ node_info[2] # EmptyMap

----------------------------------------------------------------------------
(* Properties of the indexing pass.                                         *)

IsAccess(g) == nodes[g].tag = "Access"

\* The edges the indexing pass is specified to follow: the next link of a
\* Start, Access or Update, and then before else of a Branch that has both.
TraversalEdges(g) ==
    LET n == nodes[g] IN
    IF n.tag \in {"Start", "Access", "Update"}
    THEN IF n.next = Null THEN << >> ELSE <<n.next>>
    ELSE IF n.tag = "Branch" /\ n.then # Null /\ n.else # Null
         THEN <<n.then, n.else>>
         ELSE << >>

\* Depth-first first-discovery order: the next node discovered is the first
\* undiscovered successor of the latest discovered node that still has one.
RECURSIVE DfsExtend(_)
DfsExtend(seq) ==
    LET seen == Range(seq)
        fresh(g) == {i \in DOMAIN TraversalEdges(g) : TraversalEdges(g)[i] \notin seen}
        open == {j \in DOMAIN seq : fresh(seq[j]) # {}}
    IN  IF open = {} THEN seq
        ELSE LET j == CHOOSE x \in open : \A y \in open : y <= x
                 i == CHOOSE x \in fresh(seq[j]) : \A y \in fresh(seq[j]) : x <= y
             IN  DfsExtend(Append(seq, TraversalEdges(seq[j])[i]))
DfsOrder(root) == DfsExtend(<<root>>)

\* The nodes reachable from S along the traversal edges.
RECURSIVE TraversalReach(_)
TraversalReach(S) ==
    LET T == S \cup UNION {Range(TraversalEdges(g)) : g \in S}
    IN  IF T = S THEN S ELSE TraversalReach(T)

\* The nodes reachable from S along any link: the subtree of S.
Links(g) ==
    LET n == nodes[g] IN
    (  (IF "next" \in DOMAIN n THEN {n.next} ELSE {})
     \cup (IF "then" \in DOMAIN n THEN {n.then, n.else} ELSE {})) \ {Null}
RECURSIVE Subtree(_)
Subtree(S) ==
    LET T == S \cup UNION {Links(g) : g \in S}
    IN  IF T = S THEN S ELSE Subtree(T)

OneSidedThen(b) ==
    nodes[b].tag = "Branch" /\ nodes[b].then # Null /\ nodes[b].else = Null

\* The first indexing pass of a fresh context has returned.
FirstPassDone ==
    /\ stack = << >>
    /\ pass.count = 1
    /\ pass.map0 = EmptyMap
    /\ pass.info0 = << >>

\* C5: after populate_node_info(root) on a fresh context, node_index maps the
\* indexed Access nodes one-to-one onto 0..n-1 in depth-first first-discovery
\* order (then before else), and there are n histograms, all empty.
C5_DenseDfsIndex ==
    FirstPassDone =>
        LET acc == SelectSeq(DfsOrder(pass.root), IsAccess)
            n == Len(acc)
        IN  /\ DOMAIN address_map = Range(acc)
            /\ Cardinality(DOMAIN address_map) = n
            /\ Range(address_map) = 0..(n - 1)
            /\ \A i \in 1..n : address_map[acc[i]] = i - 1
            /\ Len(node_info) = n
            /\ \A k \in 1..n : node_info[k] = EmptyMap

\* A two-sided Branch root whose then side leads to a second Access node
\* before its else side is entered: depth first gives then, then.next, else.
C5_Witness ==
    /\ FirstPassDone
    /\ nodes[pass.root].tag = "Branch"
    /\ LET t == nodes[pass.root].then
           e == nodes[pass.root].else
       IN  /\ t # Null /\ e # Null /\ t # e
           /\ IsAccess(t) /\ IsAccess(e)
           /\ nodes[t].next \notin {Null, t, e}
           /\ IsAccess(nodes[t].next)
           /\ address_map[t] = 0
           /\ address_map[nodes[t].next] = 1
           /\ address_map[e] = 2

\* C6: a second populate_node_info on the same unchanged graph, also after
\* access events, leaves node_index as it was, adds no histogram and leaves
\* the content of every histogram as it was.
C6_IdempotentIndexing ==
    (pass.root \in pass.done
       /\ last.op \in {"populate_node_info", "populate_node_info_impl"}) =>
        /\ address_map = pass.map0
        /\ node_info = pass.info0

\* A repeated pass from the same root has returned on a context that holds
\* two histograms, one of them with a recorded reuse.
C6_Witness ==
    /\ stack = << >>
    /\ last.op = "populate_node_info_impl"
    /\ pass.root \in pass.done
    /\ Len(node_info) = 2
    /\ \E k \in DOMAIN node_info : node_info[k] # EmptyMap

\* C7: populate_node_info terminates on every finite graph, cyclic ones
\* included: a pass processes no node twice and makes at most one call for
\* the root and two per processed node, and an Access node reached again
\* keeps the index it was given when first discovered.
C7_CycleSafe ==
    LET order == pass.order IN
    /\ \A i, j \in DOMAIN order : i # j => order[i] # order[j]
    /\ Range(order) \subseteq Addrs
    /\ pass.calls + Len(stack) <= 1 + 2 * Len(order)
    /\ \A i \in DOMAIN order :
          IsAccess(order[i]) =>
            /\ order[i] \in DOMAIN address_map
            /\ address_map[order[i]] =
                 IF order[i] \in DOMAIN pass.map0 THEN pass.map0[order[i]]
                 ELSE Len(pass.info0)
                      + Cardinality({j \in 1..(i - 1) :
                            IsAccess(order[j]) /\ order[j] \notin DOMAIN pass.map0})

\* Under FairSpecIndex every pass that has been started returns.
PassReturns == (stack # << >>) ~> (stack = << >>)

\* A pass has returned after following the then link of a two-sided Branch
\* back to an Access node it had already processed.
C7_Witness ==
    /\ stack = << >>
    /\ pass.calls > Len(pass.order)
    /\ \E i, j \in DOMAIN pass.order :
          /\ i < j
          /\ IsAccess(pass.order[i])
          /\ nodes[pass.order[j]].tag = "Branch"
          /\ nodes[pass.order[j]].then = pass.order[i]
          /\ nodes[pass.order[j]].else # Null
          /\ address_map[pass.order[i]] = 0

\* C8 as stated: after populate_node_info no Access node of the then subtree
\* of a Branch with then set and else absent has an index (read for the
\* Branch nodes the pass came to).
C8_ThenSubtreeNeverIndexed ==
    FirstPassDone =>
        \A b \in Range(pass.order) :
            OneSidedThen(b) =>
                \A a \in Subtree({nodes[b].then}) : a \notin DOMAIN address_map

\* C8 amended: the then subtree of a Branch with then set and else absent is
\* not indexed through that Branch; an Access node of the subtree has an
\* index only if the root reaches it along next links and the links of
\* Branches that have both sides.
C8_ThenSubtreeNotEntered ==
    FirstPassDone =>
        \A b \in Range(pass.order) :
            OneSidedThen(b) =>
                \A a \in Subtree({nodes[b].then}) :
                    a \in DOMAIN address_map => a \in TraversalReach({pass.root})

\* A pass has processed a Branch with only then set, whose then is an Access
\* node left without an index, and has indexed another Access node.
C8_Witness ==
    /\ FirstPassDone
    /\ address_map # EmptyMap
    /\ \E i \in DOMAIN pass.order :
          /\ OneSidedThen(pass.order[i])
          /\ IsAccess(nodes[pass.order[i]].then)
          /\ nodes[pass.order[i]].then \notin DOMAIN address_map

\* C9: once an Access node has an index, node_index keeps it and every
\* lookup returns it, across access events, lookups, constructions and
\* further passes; the number of histograms is that of the indexed nodes.
C9_IdentityStable ==
    /\ address_map = pass.first
    /\ Len(node_info) = Cardinality(DOMAIN pass.first)
    /\ (last.op = "get_node_id" /\ status = "running") =>
           last.ret = pass.first[last.g]

\* A node indexed by the first pass is looked up after access events and a
\* second pass that indexed a further node.
C9_Witness ==
    /\ last.op = "get_node_id"
    /\ status = "running"
    /\ pass.count = 2
    /\ pass.map0 # EmptyMap
    /\ DOMAIN address_map # DOMAIN pass.map0
    /\ last.g \in DOMAIN pass.map0
    /\ logic_time >= 1

----------------------------------------------------------------------------
(* Properties of the patch calls.                                           *)

\* The variant each patch call expects of its target.
PatchVariant ==
    [op \in {"start_set_next", "access_set_next", "update_set_next",
              "branch_set_then", "branch_set_else"} |->
        CASE op = "start_set_next" -> "Start"
          [] op = "access_set_next" -> "Access"
          [] op = "update_set_next" -> "Update"
          [] OTHER -> "Branch"]

\* The call just made was a patch whose target is null or of another variant.
MismatchedPatch(l, arena) ==
    /\ l.op \in DOMAIN PatchVariant
    /\ \/ l.target = Null
       \/ arena[l.target].tag # PatchVariant[l.op]

\* C10: a patch call whose target is null or of a variant other than the one
\* the call expects changes no node, the target included, and is not fatal.
C10_MismatchIsNoOp ==
    [][MismatchedPatch(last', nodes) =>
          /\ nodes' = nodes
          /\ status' = "running"
          /\ UNCHANGED ctxVars
      ]_vars

\* access_set_next was just called on an Update node, which has a next link.
C10_Witness ==
    /\ last.op = "access_set_next"
    /\ last.target # Null
    /\ nodes[last.target].tag = "Update"
    /\ nodes[last.target].next # Null

----------------------------------------------------------------------------
(* Properties of patching and construction, under SpecGraph.                *)

\* The link each patch call names.
PatchField ==
    [start_set_next |-> "next", access_set_next |-> "next",
     update_set_next |-> "next", branch_set_then |-> "then",
     branch_set_else |-> "else"]

\* The step is a patch call on a node of the variant the call expects.
MatchedPatch ==
    /\ last' # last
    /\ last'.op \in DOMAIN PatchVariant
    /\ last'.target # Null
    /\ nodes[last'.target].tag = PatchVariant[last'.op]

\* C11: a patch call on a node of the expected variant writes the given
\* successor (the null pointer as 'no link') into exactly the link the call
\* names; the node keeps its variant and every other field, every other node
\* is unchanged (also the node the new link points to, when the link closes
\* a cycle), and no node is added.
C11_PatchFrame ==
    [][MatchedPatch =>
         LET t == last'.target
             f == PatchField[last'.op]
         IN  /\ Len(nodes') = Len(nodes)
             /\ \A k \in Addrs \ {t} : nodes'[k] = nodes[k]
             /\ DOMAIN nodes'[t] = DOMAIN nodes[t]
             /\ \A x \in DOMAIN nodes[t] \ {f} : nodes'[t][x] = nodes[t][x]
             /\ nodes'[t][f] = last'.value
             /\ last'.value \in Ptrs
             /\ UNCHANGED ctxVars]_vars

\* A Branch whose then link has just been patched back to an earlier Access
\* node that leads to the Branch: the link closes a cycle.
C11_Witness ==
    /\ last.op = "branch_set_then"
    /\ last.target \in Addrs
    /\ last.value \in Addrs
    /\ last.value < last.target
    /\ nodes[last.target].tag = "Branch"
    /\ nodes[last.target].then = last.value
    /\ nodes[last.value].tag = "Access"
    /\ nodes[last.value].next = last.target

----------------------------------------------------------------------------
(* Properties of the queries and of misuse, under SpecSession.              *)

\* C12: get_node_dist(g) returns the histogram stored at g's index when an
\* indexing pass has given g an index, and no value ('unknown') when g was
\* never indexed; the call changes neither the graph, nor the context, nor
\* the session's status.
C12_QueryDist ==
    [][last'.op = "get_node_dist" =>
         /\ UNCHANGED <<nodes, ctxVars, passVars, status, trace>>
         /\ status = "running"
         /\ LET g == last'.g IN
            IF g \in DOMAIN pass.first
            THEN /\ last'.ret.some
                 /\ last'.ret.value = node_info[pass.first[g] + 1]
            ELSE last'.ret = [some |-> FALSE]]_vars

\* A query that has just returned a histogram holding a reuse interval,
\* with another node in the arena that has no index.
C12_Witness ==
    /\ last.op = "get_node_dist"
    /\ last.ret.some
    /\ last.ret.value # EmptyMap
    /\ \E h \in Addrs : h \notin DOMAIN address_map

\* C13: an access call whose node_id is not an index of node_info is fatal:
\* after it the session has terminated, and the call has updated no
\* histogram.
C13_OutOfRangeIsFatal ==
    (last.op = "access" /\ last.node_id >= Len(node_info)) =>
        status \in {"panicked", "crashed"}

\* C14 as stated: get_node_id and get_node_dist called with a node that was
\* never indexed are both fatal: the session has terminated after the call.
C14_UnindexedIsFatal ==
    (/\ last.op \in {"get_node_id", "get_node_dist"}
     /\ last.g \notin DOMAIN address_map) => status # "running"

\* C14, amended: get_node_id called with a node that was never indexed is
\* fatal (the session terminates and no index is returned), while
\* get_node_dist called with such a node returns no value ('unknown') and
\* the session goes on.
C14_UnindexedLookups ==
    /\ (last.op = "get_node_id" /\ last.g \notin DOMAIN address_map) =>
           (status = "panicked" /\ "ret" \notin DOMAIN last)
    /\ (last.op = "get_node_dist" /\ last.g \notin DOMAIN address_map) =>
           (status = "running" /\ ~last.ret.some)

\* A session that has indexed a node and then died in get_node_id on a node
\* with no index.
C14_Witness ==
    /\ last.op = "get_node_id"
    /\ last.g \notin DOMAIN address_map
    /\ address_map # EmptyMap
    /\ status = "panicked"

----------------------------------------------------------------------------
(* The end-to-end scenario, under SpecScenario.                             *)

\* C15: for the loop Start -> Access(memref 0) -> Update(ivar 0) -> Branch
\* with Branch.then patched back to the Access and Branch.else to End, the
\* indexing pass from Start indexes exactly one node, the Access, with index
\* 0; and once that node has accessed one block three times (at times 0, 1
\* and 2) its histogram is {1: 2}.
C15_Scenario ==
    /\ (pass.count = 1 /\ stack = << >>) =>
           /\ DOMAIN address_map = WithTag("Access")
           /\ Cardinality(DOMAIN address_map) = 1
           /\ \A a \in DOMAIN address_map : address_map[a] = 0
           /\ Len(node_info) = 1
    /\ Len(trace) = 3 =>
           /\ logic_time = 3
           /\ \A i \in 1..3 : trace[i] = <<0, trace[1][2]>>
           /\ node_info = <<(1 :> 2)>>

\* The loop was closed by patching Branch.then after the Access existed,
\* and the third access has been made.
C15_Witness ==
    /\ Len(trace) = 3
    /\ status = "running"
    /\ \E a \in WithTag("Access"), b \in WithTag("Branch") :
           /\ a < b
           /\ nodes[b].then = a
           /\ nodes[nodes[a].next].tag = "Update"
           /\ nodes[nodes[a].next].next = b
           /\ nodes[nodes[b].else].tag = "End"
           /\ node_info[address_map[a] + 1] = (1 :> 2)

----------------------------------------------------------------------------
(* Construction, under SpecGraph.                                           *)

\* The variant each construction call builds.
NewVariant ==
    [new_start |-> "Start", new_end |-> "End", new_access |-> "Access",
     new_update |-> "Update", new_branch |-> "Branch"]

ConstructionStep == last' # last /\ last'.op \in DOMAIN NewVariant

\* C16: a construction call returns an identity that no earlier call
\* returned, leaves every node created before unchanged, and creates one
\* node of the call's variant that holds the call's arguments: a null
\* successor argument as 'no link', a non-null one as the link to exactly
\* that node.
C16_ConstructionFresh ==
    [][ConstructionStep =>
         LET r == last'.ret
             args == DOMAIN last' \ {"op", "ret"}
         IN  /\ r # Null
             /\ r \notin Addrs
             /\ Len(nodes') = Len(nodes) + 1
             /\ r \in 1..Len(nodes')
             /\ \A k \in Addrs : nodes'[k] = nodes[k]
             /\ nodes'[r].tag = NewVariant[last'.op]
             /\ DOMAIN nodes'[r] = args \cup {"tag"}
             /\ \A f \in args : nodes'[r][f] = last'[f]
             /\ \A f \in args \cap {"next", "then", "else"} : last'[f] \in Ptrs
             /\ UNCHANGED ctxVars]_vars

\* A Branch has just been constructed with a then successor and a null else.
C16_Witness ==
    /\ last.op = "new_branch"
    /\ last.ret = Len(nodes)
    /\ last.then \in 1..(last.ret - 1)
    /\ last.else = Null
    /\ nodes[last.ret].then = last.then
    /\ nodes[last.ret].else = Null

----------------------------------------------------------------------------
(* Reachability of the indexed set, under SpecIndex.                        *)

\* C17: after populate_node_info(root) on a fresh context the indexed nodes
\* are exactly the Access nodes reachable from root along Start.next,
\* Access.next, Update.next and the then/else links of Branch nodes that
\* have both; so an Access node behind a one-sided Branch is indexed when,
\* and only when, such a path reaches it.
C17_IndexedIsReachable ==
    FirstPassDone =>
        DOMAIN address_map = {a \in TraversalReach({pass.root}) : IsAccess(a)}

\* A pass that came to a one-sided Branch whose then successor is an Access
\* node indexed along another path, in a graph with an Access node the root
\* does not reach, which has no index.
C17_Witness ==
    /\ FirstPassDone
    /\ \E b \in TraversalReach({pass.root}) :
           /\ OneSidedThen(b)
           /\ IsAccess(nodes[b].then)
           /\ nodes[b].then \in DOMAIN address_map
    /\ \E a \in Addrs : IsAccess(a) /\ a \notin DOMAIN address_map

----------------------------------------------------------------------------
(* Invariants of the context, under SpecSim.                                *)

\* C18: in every state reached by access events, every recorded last-seen
\* time is below logic_time, every interval recorded in a histogram is at
\* least 1 (none is 0) and at most logic_time - 1, and every recorded count
\* is at least 1.
C18_Ranges ==
    /\ \A b \in DOMAIN access_time :
           access_time[b] >= 0 /\ access_time[b] < logic_time
    /\ \A i \in DOMAIN node_info :
           \A k \in DOMAIN node_info[i] :
               /\ k >= 1
               /\ k <= logic_time - 1
               /\ node_info[i][k] >= 1

\* The extremes are reached: a block last seen at logic_time - 1, whose
\* reuse interval is the longest possible, logic_time - 1, and an interval
\* of 1 that was counted more than once.
C18_Witness ==
    /\ logic_time >= 4
    /\ \E b \in DOMAIN access_time : access_time[b] = logic_time - 1
    /\ \E i \in DOMAIN node_info : (logic_time - 1) \in DOMAIN node_info[i]
    /\ \E i \in DOMAIN node_info :
           1 \in DOMAIN node_info[i] /\ node_info[i][1] >= 2

\* C20: the counts of all histograms together equal the number of access
\* events minus the number of distinct blocks seen: every access but the
\* first touch of its block adds exactly one to exactly one histogram.
C20_Conservation ==
    TotalCount = logic_time - Cardinality(DOMAIN access_time)

\* Both blocks have been seen, several reuses have been counted, and two of
\* them fell on the same interval of the same histogram.
C20_Witness ==
    /\ Cardinality(DOMAIN access_time) = 2
    /\ TotalCount >= 3
    /\ \E i \in DOMAIN node_info :
           \E k \in DOMAIN node_info[i] : node_info[i][k] >= 2

----------------------------------------------------------------------------
(* Rendering, under SpecFormat.                                             *)

FormatStep == fmt_hist' # fmt_hist

\* The step is format called on a node whose expansion is still open.
CallOnPath ==
    /\ fmt.stack # << >>
    /\ Head(fmt.stack).kind = "call"
    /\ Head(fmt.stack).node \in Range(fmt_hist.path)

\* C19: a rendering terminates on every finite graph, cyclic or not: no node
\* is expanded twice in one rendering, so the steps taken and still to take
\* never exceed one call and four pieces of work per node; format called on
\* a node that is on the current rendering path writes "..." and expands
\* nothing; and no step of a rendering changes the graph, the simulation
\* context or the session's status.
C19_Rendering ==
    [][FormatStep =>
         /\ UNCHANGED <<nodes, ctxVars, passVars, status, trace>>
         /\ \A i, j \in DOMAIN fmt_hist'.expanded :
                fmt_hist'.expanded[i] = fmt_hist'.expanded[j] => i = j
         /\ fmt_hist'.steps + Len(fmt'.stack) <= 1 + 4 * Len(nodes)
         /\ CallOnPath =>
                /\ fmt'.out = Append(fmt.out, "...")
                /\ fmt'.stack = Tail(fmt.stack)
                /\ fmt_hist'.expanded = fmt_hist.expanded]_vars

\* A rendering of a cycle has returned: the root is an Access node, a later
\* node links back to it, and the text ends the cycle with "...".
C19_Witness ==
    /\ fmt_hist.root # Null
    /\ fmt.stack = << >>
    /\ IsAccess(fmt_hist.root)
    /\ \E b \in Range(fmt_hist.expanded) \ {fmt_hist.root} :
           fmt_hist.root \in Links(b)
    /\ \E i \in DOMAIN fmt.out : fmt.out[i] = "..."
    /\ fmt.out[Len(fmt.out)] = ")"

====
